---- MODULE Spec2Model ----
(***************************************************************************)
(* A model of parallel-limiter (src/index.js): the ParallelLimiter class,  *)
(* allSettledParallelLimited, noLimiter and asyncTimeout, run on a model   *)
(* of the JavaScript event loop: one thread, a FIFO microtask queue that   *)
(* is drained before the next timer callback runs, and timers that fire in *)
(* the order of their expiry.                                              *)
(*                                                                         *)
(* One step of the model is one synchronous segment of JavaScript: a call  *)
(* up to its first await, a timer callback, or one microtask (a promise    *)
(* reaction or the continuation of an await).                              *)
(***************************************************************************)
EXTENDS Integers, Sequences, FiniteSets, TLC

(* Bounds of the model. *)
NumCallers == 3
NumConcurrent == 2
MaxJobs == 3
MaxCapacity == 2

(* Program constants. *)
DefaultRetryMs == 10
DrainFactor == 5

Callers == 1..NumCallers
Capacities == 1..MaxCapacity

(* What an operation can produce.  A rejection reason is any JavaScript    *)
(* value: "undefined" stands for a nullish reason (Promise.reject()), the  *)
(* others for Error objects.                                               *)
Values == {"v1", "v2"}
Errors == {"e1", "undefined"}
TypeError == "TypeError"

(* The logger is the caller's function: one that returns from every call   *)
(* (the default logger among them), or one whose calls may throw.          *)
Loggers == {"returns", "throws"}
SinkError == "sinkError"

Exports == {"ParallelLimiter", "allSettledParallelLimited", "noLimiter"}

(* The operation handed to schedule (promiseProvider, asyncRunner) or made *)
(* by jobToPromise(job): called synchronously, it either throws or returns *)
(* a promise, which the environment settles later.                         *)
Providers ==
    {[throws |-> FALSE, error |-> "none"]}
        \cup {[throws |-> TRUE, error |-> e] : e \in Errors}

NoOutcome == [status |-> "none", payload |-> "none"]
Fulfilled(v) == [status |-> "fulfilled", payload |-> v]
Rejected(e) == [status |-> "rejected", payload |-> e]
Outcomes == {Fulfilled(v) : v \in Values} \cup {Rejected(e) : e \in Errors}

VARIABLES
    uses,        \* the export the program exercises
    microtasks,  \* the event loop's microtask queue
    timers,      \* pending setTimeout timers, in creation order
    logged,      \* the messages the logger has been given
    limiter,     \* a ParallelLimiter: maxParallel, retryMs, logRetries, runningCount
    calls,       \* one ParallelLimiter.schedule call per caller
    batch,       \* one allSettledParallelLimited call: its parameters and locals
    jobState,    \* the promise jobToPromise(job) made, per job
    nlCalls,     \* one noLimiter.schedule call per caller
    peer         \* a second ParallelLimiter and the schedule calls made on it

vars == <<uses, microtasks, timers, logged, limiter, calls, batch, jobState, nlCalls,
          peer>>


(* Programs that have two instances in progress at once on the one event   *)
(* loop: two limiters, or a limiter and a batch.                           *)
TwoLimiters == "twoLimiters"
LimiterAndBatch == "limiterAndBatch"
Concurrently == {TwoLimiters, LimiterAndBatch}

InUse(export) ==
    \/ uses = export
    \/ export = "ParallelLimiter" /\ uses \in Concurrently
    \/ export = "allSettledParallelLimited" /\ uses = LimiterAndBatch

limiterVars == <<limiter, calls>>
batchVars == <<batch, jobState>>

----------------------------------------------------------------------------
(* The event loop.                                                         *)

Microtask(kind, owner, id) == [kind |-> kind, owner |-> owner, id |-> id]

(* asyncTimeout(delayMs): a timer whose callback resolves the promise.     *)
Timer(owner, id, delayMs) == [owner |-> owner, id |-> id, delay |-> delayMs]

asyncTimeout(ts, owner, id, delayMs) == Append(ts, Timer(owner, id, delayMs))

(* A timer can be the next to fire when no timer created before it expires *)
(* before it or with it.                                                   *)
CanFire(k) ==
    /\ k \in 1..Len(timers)
    /\ \A j \in 1..(k - 1) : timers[j].delay > timers[k].delay

RemoveAt(s, k) == SubSeq(s, 1, k - 1) \o SubSeq(s, k + 1, Len(s))

(* A timer callback runs only when the microtask queue is empty.  It       *)
(* resolves the promise made in asyncTimeout; the promise the async        *)
(* function returned adopts that state in a microtask.                     *)
TimerFires(k) ==
    /\ microtasks = <<>>
    /\ CanFire(k)
    /\ timers' = RemoveAt(timers, k)
    /\ microtasks' = <<Microtask("timeout", timers[k].owner, timers[k].id)>>
    /\ UNCHANGED <<uses, peer, logged, limiterVars, batchVars, nlCalls>>

(* The promise returned by asyncTimeout is fulfilled: the continuation of  *)
(* the caller's await is queued.                                           *)
TimeoutResolves ==
    /\ microtasks # <<>>
    /\ Head(microtasks).kind = "timeout"
    /\ microtasks' = Append(Tail(microtasks),
                            Microtask("resume", Head(microtasks).owner, Head(microtasks).id))
    /\ UNCHANGED <<uses, peer, timers, logged, limiterVars, batchVars, nlCalls>>

----------------------------------------------------------------------------
(* ParallelLimiter.                                                        *)

NewCall ==
    [pc |-> "idle", provider |-> [throws |-> FALSE, error |-> "none"],
     outcome |-> NoOutcome, invoked |-> 0, result |-> NoOutcome]

(* constructor *)
ParallelLimiter(maxParallel, retryMs, logger, logRetries) ==
    [maxParallel |-> maxParallel, retryMs |-> retryMs, logger |-> logger,
     logRetries |-> logRetries, runningCount |-> 0]

(* this.logger(...): whether the call throws.                              *)
SinkThrows(l) == IF l.logger = "throws" THEN BOOLEAN ELSE {FALSE}

(* Mutant: the admission check is off by one.                             *)
LimiterFullOffByOne(l) == l.runningCount > l.maxParallel

(* while (this.runningCount >= this.maxParallel) *)
(* Mutant: the last free slot is never handed out.                         *)
LimiterFullEarly(l) == l.runningCount + 1 >= l.maxParallel

LimiterFull(l) == l.runningCount >= l.maxParallel

(* Mutant: the operation is invoked before the call is admitted.          *)
WaitingInvokes(call) == [call EXCEPT !.pc = "waiting", !.invoked = @ + 1]

(* The call after the loop body: suspended in await asyncTimeout.          *)
Waiting(call) == [call EXCEPT !.pc = "waiting"]

(* const promise = promiseProvider(): a throw leaves schedule, whose       *)
(* promise rejects with it; otherwise schedule awaits the promise.         *)
Invoked(call) ==
    IF call.provider.throws
    THEN [call EXCEPT !.pc = "rejected", !.invoked = @ + 1,
                      !.outcome = Rejected(call.provider.error),
                      !.result = Rejected(call.provider.error)]
    ELSE [call EXCEPT !.pc = "running", !.invoked = @ + 1]

(* An exception of the logger at line 70 or 76 leaves schedule, whose      *)
(* promise rejects with it; the operation has not been invoked.            *)
LoggerThrew(call) == [call EXCEPT !.pc = "rejected", !.result = Rejected(SinkError)]

(* Mutant: a caller also waits while a caller with a lower number waits.   *)
ScheduleLoopFifo(c, call, mq) ==
    /\ microtasks' = mq
    /\ IF LimiterFull(limiter) \/ \E d \in Callers : d < c /\ calls[d].pc = "waiting"
       THEN /\ logged' = IF limiter.logRetries
                         THEN logged \cup {<<"Max parallel count reached",
                                             limiter.runningCount>>}
                         ELSE logged
            /\ timers' = asyncTimeout(timers, "schedule", c, limiter.retryMs)
            /\ calls' = [calls EXCEPT ![c] = Waiting(call)]
            /\ UNCHANGED limiter
       ELSE /\ limiter' = [limiter EXCEPT !.runningCount = @ + 1]
            /\ UNCHANGED timers
            /\ logged' = logged \cup {<<"Started Promise", limiter.runningCount + 1>>}
            /\ calls' = [calls EXCEPT ![c] = Invoked(call)]

(* Mutant: the admission check is made once, `if` in place of `while`: a   *)
(* caller that has waited one interval is admitted.                        *)
ScheduleLoopOnce(c, call, mq) ==
    /\ microtasks' = mq
    /\ IF LimiterFull(limiter) /\ call.pc = "idle"
       THEN /\ logged' = IF limiter.logRetries
                         THEN logged \cup {<<"Max parallel count reached",
                                             limiter.runningCount>>}
                         ELSE logged
            /\ timers' = asyncTimeout(timers, "schedule", c, limiter.retryMs)
            /\ calls' = [calls EXCEPT ![c] = Waiting(call)]
            /\ UNCHANGED limiter
       ELSE /\ limiter' = [limiter EXCEPT !.runningCount = @ + 1]
            /\ UNCHANGED timers
            /\ logged' = logged \cup {<<"Started Promise", limiter.runningCount + 1>>}
            /\ calls' = [calls EXCEPT ![c] = Invoked(call)]

(* schedule from the head of its while loop to its next await.             *)
ScheduleLoop(c, call, mq) ==
    \E thrown \in SinkThrows(limiter) :
        /\ microtasks' = mq
        /\ IF LimiterFull(limiter)
           THEN IF limiter.logRetries /\ thrown
                THEN /\ calls' = [calls EXCEPT ![c] = LoggerThrew(call)]
                     /\ UNCHANGED <<limiter, timers, logged>>
                ELSE /\ logged' = IF limiter.logRetries
                                  THEN logged \cup {<<"Max parallel count reached",
                                                      limiter.runningCount>>}
                                  ELSE logged
                     /\ timers' = asyncTimeout(timers, "schedule", c, limiter.retryMs)
                     /\ calls' = [calls EXCEPT ![c] = Waiting(call)]
                     /\ UNCHANGED limiter
           ELSE /\ limiter' = [limiter EXCEPT !.runningCount = @ + 1]
                /\ UNCHANGED timers
                /\ IF thrown
                   THEN /\ calls' = [calls EXCEPT ![c] = LoggerThrew(call)]
                        /\ UNCHANGED logged
                   ELSE /\ logged' = logged \cup {<<"Started Promise",
                                                      limiter.runningCount + 1>>}
                        /\ calls' = [calls EXCEPT ![c] = Invoked(call)]

(* limiter.schedule(promiseProvider) *)
Schedule(c, provider) ==
    /\ InUse("ParallelLimiter")
    /\ calls[c].pc = "idle"
    /\ ScheduleLoop(c, [calls[c] EXCEPT !.provider = provider], microtasks)
    /\ UNCHANGED <<uses, peer, batchVars, nlCalls>>

(* The await of asyncTimeout returns: the while condition is checked again.*)
ScheduleResumes ==
    /\ microtasks # <<>>
    /\ Head(microtasks).kind = "resume"
    /\ Head(microtasks).owner = "schedule"
    /\ ScheduleLoop(Head(microtasks).id, calls[Head(microtasks).id], Tail(microtasks))
    /\ UNCHANGED <<uses, peer, batchVars, nlCalls>>

(* The promise the operation returned settles: the continuation of         *)
(* `await promise` is queued.                                              *)
OperationSettles(c, outcome) ==
    /\ calls[c].pc = "running"
    /\ calls' = [calls EXCEPT ![c].pc = "settled", ![c].outcome = outcome]
    /\ microtasks' = Append(microtasks, Microtask("await", "schedule", c))
    /\ UNCHANGED <<uses, peer, timers, logged, limiter, batchVars, nlCalls>>

(* e.message: reading a property of undefined throws a TypeError.          *)
HasMessage(e) == e # "undefined"

(* How the promise returned by schedule settles, lines 79-87: return value *)
(* in the try block; in the catch block the log line reads e.message       *)
(* before throw e is reached.                                              *)
Delivered(outcome) ==
    IF outcome.status = "fulfilled"
    THEN Fulfilled(outcome.payload)
    ELSE IF HasMessage(outcome.payload)
         THEN Rejected(outcome.payload)
         ELSE Rejected(TypeError)

(* The messages of lines 81 and 85, given the count after the decrement.   *)
SettledMessages(outcome, count) ==
    IF outcome.status = "fulfilled"
    THEN {<<"Finalized Promise", count>>}
    ELSE IF HasMessage(outcome.payload)
         THEN {<<"Failed Promise", count, outcome.payload>>}
         ELSE {}

(* Mutant: the count is decremented in the try and in the catch block.     *)
ReleasedTwice(outcome, thrown) == 2

(* How many times runningCount-- runs: line 80 or line 84; both when the   *)
(* logger call of line 81, which is inside the try block, throws.          *)
Released(outcome, thrown) ==
    IF outcome.status = "fulfilled" /\ thrown THEN 2 ELSE 1

(* Whether the logger is called at all: not when e.message has thrown.     *)
LoggerCalled(outcome) ==
    outcome.status = "fulfilled" \/ HasMessage(outcome.payload)

(* How the promise returned by schedule settles when the logger call of    *)
(* line 81 or 85 may throw: the catch block rethrows what it caught.       *)
DeliveredWith(outcome, thrown) ==
    IF thrown /\ LoggerCalled(outcome) THEN Rejected(SinkError) ELSE Delivered(outcome)

(* The messages the logger has taken: those of a call that returned.  The  *)
(* catch block logs the logger's own exception when it caught that.        *)
MessagesWith(outcome, count, thrown, thrownAgain) ==
    IF ~thrown
    THEN SettledMessages(outcome, count)
    ELSE IF outcome.status = "fulfilled" /\ ~thrownAgain
         THEN {<<"Failed Promise", count, SinkError>>}
         ELSE {}

(* The continuation of `await promise`, in the try or in the catch block.  *)
AwaitResumes ==
    /\ microtasks # <<>>
    /\ Head(microtasks).kind = "await"
    /\ Head(microtasks).owner = "schedule"
    /\ \E thrown \in SinkThrows(limiter), thrownAgain \in SinkThrows(limiter) :
           LET c == Head(microtasks).id
               outcome == calls[c].outcome
               count == limiter.runningCount - Released(outcome, thrown)
           IN /\ limiter' = [limiter EXCEPT !.runningCount = count]
              /\ logged' = logged \cup MessagesWith(outcome, count, thrown, thrownAgain)
              /\ calls' = [calls EXCEPT ![c].pc = DeliveredWith(outcome, thrown).status,
                                        ![c].result = DeliveredWith(outcome, thrown)]
    /\ microtasks' = Tail(microtasks)
    /\ UNCHANGED <<uses, peer, timers, batchVars, nlCalls>>

----------------------------------------------------------------------------
(* A second instance of ParallelLimiter, with schedule calls of its own.   *)
(* It is constructed with the default logger, which discards its messages. *)

NewPeer(maxParallel) ==
    [limiter |-> ParallelLimiter(maxParallel, DefaultRetryMs, "returns", FALSE),
     calls |-> [c \in Callers |-> NewCall]]

(* Mutant: runningCount is one counter shared by all instances.            *)
ThisShared(p) == [p.limiter EXCEPT !.runningCount = limiter.runningCount]

(* `this` in a schedule call on the second instance.                       *)
This(p) == p.limiter

(* schedule from the head of its while loop to its next await.             *)
PeerScheduleLoop(c, call, mq) ==
    /\ microtasks' = mq
    /\ IF LimiterFull(This(peer))
       THEN /\ timers' = asyncTimeout(timers, "peer", c, This(peer).retryMs)
            /\ peer' = [peer EXCEPT !.calls[c] = Waiting(call)]
       ELSE /\ peer' = [peer EXCEPT !.limiter.runningCount = This(peer).runningCount + 1,
                                    !.calls[c] = Invoked(call)]
            /\ UNCHANGED timers

(* peer.schedule(promiseProvider) *)
PeerSchedule(c, provider) ==
    /\ uses = TwoLimiters
    /\ peer.calls[c].pc = "idle"
    /\ PeerScheduleLoop(c, [peer.calls[c] EXCEPT !.provider = provider], microtasks)
    /\ UNCHANGED <<uses, logged, limiterVars, batchVars, nlCalls>>

PeerScheduleResumes ==
    /\ microtasks # <<>>
    /\ Head(microtasks).kind = "resume"
    /\ Head(microtasks).owner = "peer"
    /\ PeerScheduleLoop(Head(microtasks).id, peer.calls[Head(microtasks).id],
                        Tail(microtasks))
    /\ UNCHANGED <<uses, logged, limiterVars, batchVars, nlCalls>>

PeerOperationSettles(c, outcome) ==
    /\ peer.calls[c].pc = "running"
    /\ peer' = [peer EXCEPT !.calls[c].pc = "settled", !.calls[c].outcome = outcome]
    /\ microtasks' = Append(microtasks, Microtask("await", "peer", c))
    /\ UNCHANGED <<uses, timers, logged, limiterVars, batchVars, nlCalls>>

(* The continuation of `await promise` in a call on the second instance.   *)
PeerAwaitResumes ==
    /\ microtasks # <<>>
    /\ Head(microtasks).kind = "await"
    /\ Head(microtasks).owner = "peer"
    /\ LET c == Head(microtasks).id
           outcome == peer.calls[c].outcome
       IN peer' = [peer EXCEPT
                     !.limiter.runningCount = This(peer).runningCount
                                                 - Released(outcome, FALSE),
                     !.calls[c].pc = Delivered(outcome).status,
                     !.calls[c].result = Delivered(outcome)]
    /\ microtasks' = Tail(microtasks)
    /\ UNCHANGED <<uses, timers, logged, limiterVars, batchVars, nlCalls>>

----------------------------------------------------------------------------
(* allSettledParallelLimited.                                              *)

(* A job of the input: an object with its own identity, and what           *)
(* jobToPromise does when called on it.                                    *)
Job(k, provider) == [id |-> k, throws |-> provider.throws, error |-> provider.error]

JobLists ==
    UNION {{[k \in 1..n |-> Job(k, f[k])] : f \in [1..n -> Providers]} : n \in 0..MaxJobs}

NewJobState == [pc |-> "unstarted", outcome |-> NoOutcome, invoked |-> 0]

(* The parameters and the locals (runs, runningCount, i) of one call.      *)
(* origin is a history of which job each record of runs came from, error   *)
(* is what the call's promise was rejected with.                           *)
NewBatch(jobs, maxParallel, retryMs, logRetries) ==
    [jobs |-> jobs, maxParallel |-> maxParallel, retryMs |-> retryMs,
     logRetries |-> logRetries, pc |-> "idle", i |-> 0, runningCount |-> 0,
     runs |-> <<>>, origin |-> <<>>, error |-> "none"]

(* Mutant: the admission check is off by one.                             *)
BatchFullOffByOne(b) == b.runningCount > b.maxParallel

(* Mutant: the admission check stops one short of the capacity.           *)
BatchFullEarly(b) == b.runningCount + 1 >= b.maxParallel

(* while (runningCount >= maxParallel) *)
BatchFull(b) == b.runningCount >= b.maxParallel

(* Mutant: the drain loop stops with one job still running.               *)
DrainingOffByOne(b) == b.runningCount > 1

(* while (runningCount >= 1) *)
Draining(b) == b.runningCount >= 1

(* The loop of lines 43-48 from its condition to its await, or return runs.*)
DrainLoop(st) ==
    LET b == st.batch IN
    IF Draining(b)
    THEN [st EXCEPT
            !.batch.pc = "drainWait",
            !.logged = IF b.logRetries
                       THEN @ \cup {<<"Waiting for runs to complete", b.runningCount>>}
                       ELSE @,
            !.timers = asyncTimeout(@, "batch", 0, DrainFactor * b.retryMs)]
    ELSE [st EXCEPT !.batch.pc = "returned"]

(* jobToPromise(job).then(...).catch(...): a throw of jobToPromise leaves  *)
(* the function, whose promise rejects with it; otherwise the job's        *)
(* promise is pending with both reactions registered, and the loop goes on.*)
(* Mutant: the loop index skips a job.                                     *)
DispatchSkips(b, k) ==
    IF b.jobs[k].throws
    THEN [b EXCEPT !.pc = "rejected", !.error = b.jobs[k].error]
    ELSE [b EXCEPT !.i = @ + 2]

Dispatch(b, k) ==
    IF b.jobs[k].throws
    THEN [b EXCEPT !.pc = "rejected", !.error = b.jobs[k].error]
    ELSE [b EXCEPT !.i = @ + 1]

(* The for loop of lines 22-41 from the while condition of job i to the    *)
(* next await, and on into the drain loop when all jobs are dispatched.    *)
RECURSIVE ForLoop(_)
ForLoop(st) ==
    LET b == st.batch
        k == b.i + 1
    IN IF b.i >= Len(b.jobs)
       THEN DrainLoop(st)
       ELSE IF BatchFull(b)
            THEN [st EXCEPT
                    !.batch.pc = "admitWait",
                    !.logged = IF b.logRetries
                               THEN @ \cup {<<"Running", b.i, Len(b.jobs), b.runningCount>>}
                               ELSE @,
                    !.timers = asyncTimeout(@, "batch", 0, b.retryMs)]
            ELSE LET started == [b EXCEPT !.runningCount = @ + 1]
                     after == [st EXCEPT
                                 !.batch = Dispatch(started, k),
                                 !.logged = @ \cup {<<"Started", b.i, Len(b.jobs),
                                                      started.runningCount>>},
                                 !.jobState[k].invoked = @ + 1,
                                 !.jobState[k].pc = IF b.jobs[k].throws
                                                    THEN "threw" ELSE "pending"]
                 IN IF after.batch.pc = "rejected" THEN after ELSE ForLoop(after)

BatchState == [batch |-> batch, jobState |-> jobState, timers |-> timers, logged |-> logged]

BatchBecomes(st) ==
    /\ batch' = st.batch
    /\ jobState' = st.jobState
    /\ timers' = st.timers
    /\ logged' = st.logged

(* allSettledParallelLimited({jobs, jobToPromise, maxParallel, ...})       *)
BatchCall ==
    /\ InUse("allSettledParallelLimited")
    /\ batch.pc = "idle"
    /\ BatchBecomes(ForLoop([BatchState EXCEPT !.batch.pc = "running"]))
    /\ UNCHANGED <<uses, peer, microtasks, limiterVars, nlCalls>>

(* The await of asyncTimeout returns, in the admission or the drain loop.  *)
BatchResumes ==
    /\ microtasks # <<>>
    /\ Head(microtasks).kind = "resume"
    /\ Head(microtasks).owner = "batch"
    /\ BatchBecomes(IF batch.pc = "admitWait"
                    THEN ForLoop(BatchState)
                    ELSE DrainLoop(BatchState))
    /\ microtasks' = Tail(microtasks)
    /\ UNCHANGED <<uses, peer, limiterVars, nlCalls>>

(* The promise of job k settles: the reaction registered by .then is       *)
(* queued.                                                                 *)
JobSettles(k, outcome) ==
    /\ k \in DOMAIN jobState
    /\ jobState[k].pc = "pending"
    /\ jobState' = [jobState EXCEPT ![k].pc = "settled", ![k].outcome = outcome]
    /\ microtasks' = Append(microtasks, Microtask("then", "batch", k))
    /\ UNCHANGED <<uses, peer, timers, logged, limiterVars, batch, nlCalls>>

(* value => { runningCount--; return runs.push({status: 'fulfilled', value}) } *)
OnFulfilled(b, k, value) ==
    [b EXCEPT !.runningCount = @ - 1,
              !.runs = Append(@, [status |-> "fulfilled", value |-> value]),
              !.origin = Append(@, k)]

(* Mutant: a rejection is recorded like a result.                         *)
OnRejectedAsFulfilled(b, k, error) ==
    [b EXCEPT !.runningCount = @ - 1,
              !.runs = Append(@, [status |-> "fulfilled", value |-> error]),
              !.origin = Append(@, k)]

(* Mutant: a rejection is passed on to the caller of the batch.           *)
OnRejectedAborts(b, k, error) ==
    [b EXCEPT !.runningCount = @ - 1, !.pc = "rejected", !.error = error]

(* error => { runningCount--; return runs.push({status: 'rejected', reason: {error, job}}) } *)
OnRejected(b, k, error) ==
    [b EXCEPT !.runningCount = @ - 1,
              !.runs = Append(@, [status |-> "rejected",
                                  reason |-> [error |-> error, job |-> b.jobs[k]]]),
              !.origin = Append(@, k)]

(* The reaction of .then: the handler on a fulfilled promise; a rejection  *)
(* passes to the promise .then returned, which queues the reaction of      *)
(* .catch.                                                                 *)
ThenReaction ==
    /\ microtasks # <<>>
    /\ Head(microtasks).kind = "then"
    /\ LET k == Head(microtasks).id IN
       IF jobState[k].outcome.status = "fulfilled"
       THEN /\ batch' = OnFulfilled(batch, k, jobState[k].outcome.payload)
            /\ jobState' = [jobState EXCEPT ![k].pc = "done"]
            /\ microtasks' = Tail(microtasks)
       ELSE /\ jobState' = [jobState EXCEPT ![k].pc = "chained"]
            /\ microtasks' = Append(Tail(microtasks), Microtask("catch", "batch", k))
            /\ UNCHANGED batch
    /\ UNCHANGED <<uses, peer, timers, logged, limiterVars, nlCalls>>

(* The reaction of .catch on a rejection.                                  *)
CatchReaction ==
    /\ microtasks # <<>>
    /\ Head(microtasks).kind = "catch"
    /\ LET k == Head(microtasks).id IN
       /\ batch' = OnRejected(batch, k, jobState[k].outcome.payload)
       /\ jobState' = [jobState EXCEPT ![k].pc = "done"]
    /\ microtasks' = Tail(microtasks)
    /\ UNCHANGED <<uses, peer, timers, logged, limiterVars, nlCalls>>

----------------------------------------------------------------------------
(* noLimiter.                                                              *)

(* schedule: async asyncRunner => asyncRunner().  A throw of asyncRunner   *)
(* rejects the returned promise; otherwise the returned promise is         *)
(* resolved with the promise asyncRunner made and adopts its state.        *)
NoLimiterInvoked(call) ==
    IF call.provider.throws
    THEN [call EXCEPT !.pc = "rejected", !.invoked = @ + 1,
                      !.outcome = Rejected(call.provider.error),
                      !.result = Rejected(call.provider.error)]
    ELSE [call EXCEPT !.pc = "running", !.invoked = @ + 1]

(* noLimiter.schedule(asyncRunner) *)
NoLimiterSchedule(c, provider) ==
    /\ InUse("noLimiter")
    /\ nlCalls[c].pc = "idle"
    /\ nlCalls' = [nlCalls EXCEPT ![c] = NoLimiterInvoked([@ EXCEPT !.provider = provider])]
    /\ UNCHANGED <<uses, peer, microtasks, timers, logged, limiterVars, batchVars>>

(* The promise asyncRunner returned settles.                               *)
RunnerSettles(c, outcome) ==
    /\ nlCalls[c].pc = "running"
    /\ nlCalls' = [nlCalls EXCEPT ![c].pc = "settled", ![c].outcome = outcome]
    /\ microtasks' = Append(microtasks, Microtask("adopt", "noLimiter", c))
    /\ UNCHANGED <<uses, peer, timers, logged, limiterVars, batchVars>>

(* Mutant: a failure of the operation is swallowed.                       *)
AdoptedSwallows(outcome) ==
    IF outcome.status = "rejected" THEN Fulfilled("undefined") ELSE outcome

(* The state the promise returned by noLimiter.schedule takes.             *)
Adopted(outcome) == outcome

(* The promise returned by schedule adopts the settled state.              *)
NoLimiterAdopts ==
    /\ microtasks # <<>>
    /\ Head(microtasks).kind = "adopt"
    /\ LET c == Head(microtasks).id IN
       nlCalls' = [nlCalls EXCEPT ![c].pc = Adopted(nlCalls[c].outcome).status,
                                  ![c].result = Adopted(nlCalls[c].outcome)]
    /\ microtasks' = Tail(microtasks)
    /\ UNCHANGED <<uses, peer, timers, logged, limiterVars, batchVars>>

----------------------------------------------------------------------------

(* A program uses one of the given exports, with one of the given          *)
(* capacities and loggers; the other exports stay as constructed.          *)
InitWith(exports, capacities, loggers) ==
    /\ uses \in exports
    /\ microtasks = <<>>
    /\ timers = <<>>
    /\ logged = {}
    /\ \E m \in capacities, lg \in loggers, lr \in BOOLEAN :
           limiter = IF InUse("ParallelLimiter")
                     THEN ParallelLimiter(m, DefaultRetryMs, lg, lr)
                     ELSE ParallelLimiter(1, DefaultRetryMs, "returns", FALSE)
    /\ calls = [c \in Callers |-> NewCall]
    /\ \E jobs \in JobLists, m \in capacities, lr \in BOOLEAN :
           batch = IF InUse("allSettledParallelLimited")
                   THEN NewBatch(jobs, m, DefaultRetryMs, lr)
                   ELSE NewBatch(<<>>, 1, DefaultRetryMs, FALSE)
    /\ jobState = [k \in 1..Len(batch.jobs) |-> NewJobState]
    /\ nlCalls = [c \in Callers |-> NewCall]
    /\ \E m \in capacities :
           peer = IF uses = TwoLimiters THEN NewPeer(m) ELSE NewPeer(1)

(* The capacity is a positive integer and the logger returns.              *)
Init == InitWith(Exports, Capacities, {"returns"})

Next ==
    \/ \E k \in 1..NumCallers : TimerFires(k)
    \/ TimeoutResolves
    \/ \E c \in Callers, p \in Providers : Schedule(c, p)
    \/ ScheduleResumes
    \/ \E c \in Callers, o \in Outcomes : OperationSettles(c, o)
    \/ AwaitResumes
    \/ BatchCall
    \/ BatchResumes
    \/ \E k \in 1..MaxJobs, o \in Outcomes : JobSettles(k, o)
    \/ ThenReaction
    \/ CatchReaction
    \/ \E c \in Callers, p \in Providers : NoLimiterSchedule(c, p)
    \/ \E c \in Callers, o \in Outcomes : RunnerSettles(c, o)
    \/ NoLimiterAdopts

Spec == Init /\ [][Next]_vars

----------------------------------------------------------------------------
(* A program that makes one call of allSettledParallelLimited, on an event *)
(* loop that keeps running: a microtask that is queued runs, a timer that  *)
(* is due fires, and every promise a job made is settled in the end.       *)

(* A capacity that admits nothing: zero or negative.                       *)
NonPositiveCapacities == {0, -1}

ZeroInit ==
    InitWith({"ParallelLimiter", "allSettledParallelLimited"},
             NonPositiveCapacities, {"returns"})

(* With nothing admitted no operation or job is started, and none settles. *)
ZeroNext ==
    \/ \E k \in 1..NumCallers : TimerFires(k)
    \/ TimeoutResolves
    \/ \E c \in Callers, p \in Providers : Schedule(c, p)
    \/ ScheduleResumes
    \/ BatchCall
    \/ BatchResumes

ZeroSpec == ZeroInit /\ [][ZeroNext]_vars

(* The limiter alone, with the callers numbered in the order of their      *)
(* calls: caller c calls schedule after every caller below c has.          *)
ArrivalInit == InitWith({"ParallelLimiter"}, Capacities, {"returns"})

ScheduleInOrder(c, provider) ==
    /\ \A d \in Callers : d < c => calls[d].pc # "idle"
    /\ Schedule(c, provider)

ArrivalNext ==
    \/ \E k \in 1..NumCallers : TimerFires(k)
    \/ TimeoutResolves
    \/ \E c \in Callers, p \in Providers : ScheduleInOrder(c, p)
    \/ ScheduleResumes
    \/ \E c \in Callers, o \in Outcomes : OperationSettles(c, o)
    \/ AwaitResumes

ArrivalSpec == ArrivalInit /\ [][ArrivalNext]_vars

(* The limiter alone, constructed with a logger whose calls may throw.     *)
SinkInit == InitWith({"ParallelLimiter"}, Capacities, {"throws"})

SinkNext ==
    \/ \E k \in 1..NumCallers : TimerFires(k)
    \/ TimeoutResolves
    \/ \E c \in Callers, p \in Providers : Schedule(c, p)
    \/ ScheduleResumes
    \/ \E c \in Callers, o \in Outcomes : OperationSettles(c, o)
    \/ AwaitResumes

SinkSpec == SinkInit /\ [][SinkNext]_vars

(* Two instances in progress at once: NumConcurrent callers on each        *)
(* limiter and as many jobs in the batch, with operations that return a    *)
(* promise, and retries that are not logged.  The operations of the first  *)
(* limiter fulfil, those of the other instance reject, so that a program   *)
(* releases slots both ways (lines 80 and 84, or 80 and 38).               *)
ConcurrentCallers == 1..NumConcurrent
ReturnsPromise == [throws |-> FALSE, error |-> "none"]
ConcurrentJobs == [k \in 1..NumConcurrent |-> Job(k, ReturnsPromise)]
OwnOutcome == Fulfilled("v1")
OtherOutcome == Rejected("e1")

FrameInit ==
    /\ InitWith(Concurrently, Capacities, {"returns"})
    /\ ~limiter.logRetries
    /\ ~batch.logRetries
    /\ uses = LimiterAndBatch => batch.jobs = ConcurrentJobs

FrameNext ==
    \/ \E k \in 1..NumCallers : TimerFires(k)
    \/ TimeoutResolves
    \/ \E c \in ConcurrentCallers : Schedule(c, ReturnsPromise)
    \/ ScheduleResumes
    \/ \E c \in ConcurrentCallers : OperationSettles(c, OwnOutcome)
    \/ AwaitResumes
    \/ \E c \in ConcurrentCallers : PeerSchedule(c, ReturnsPromise)
    \/ PeerScheduleResumes
    \/ \E c \in ConcurrentCallers : PeerOperationSettles(c, OtherOutcome)
    \/ PeerAwaitResumes
    \/ BatchCall
    \/ BatchResumes
    \/ \E k \in 1..NumConcurrent : JobSettles(k, OtherOutcome)
    \/ ThenReaction
    \/ CatchReaction

FrameSpec == FrameInit /\ [][FrameNext]_vars

(* The limiter alone under fair scheduling: the event loop keeps running   *)
(* its timers and microtasks, and every promise an operation returned is   *)
(* eventually settled.  Which calls are made is up to the callers.         *)
LimiterEventLoop ==
    \/ \E k \in 1..NumCallers : TimerFires(k)
    \/ TimeoutResolves
    \/ ScheduleResumes
    \/ AwaitResumes

OperationsSettle == \E c \in Callers, o \in Outcomes : OperationSettles(c, o)

SchedulesCalled == \E c \in Callers, p \in Providers : Schedule(c, p)

LimiterNext == SchedulesCalled \/ LimiterEventLoop \/ OperationsSettle

FairLimiterSpec ==
    /\ ArrivalInit
    /\ [][LimiterNext]_vars
    /\ WF_vars(LimiterEventLoop)
    /\ WF_vars(OperationsSettle)

(* Re-entrant use of one limiter: the operation of caller c may call       *)
(* schedule on the same limiter, as caller c + 1, and await the result.    *)
(* Caller 1 is the program itself.                                         *)
Completed(call) == call.pc \in {"fulfilled", "rejected"}

NestedSchedule(c, provider) ==
    /\ c > 1 => calls[c - 1].pc = "running"
    /\ Schedule(c, provider)

(* The promise of an operation that awaits a nested call settles only      *)
(* after that call has.                                                    *)
NestedSettles(c, outcome) ==
    /\ c + 1 \in Callers => calls[c + 1].pc = "idle" \/ Completed(calls[c + 1])
    /\ OperationSettles(c, outcome)

NestedNext ==
    \/ \E k \in 1..NumCallers : TimerFires(k)
    \/ TimeoutResolves
    \/ \E c \in Callers, p \in Providers : NestedSchedule(c, p)
    \/ ScheduleResumes
    \/ \E c \in Callers, o \in Outcomes : NestedSettles(c, o)
    \/ AwaitResumes

NestedSpec == ArrivalInit /\ [][NestedNext]_vars

BatchInit == Init /\ uses = "allSettledParallelLimited"

EventLoopStep ==
    \/ \E k \in 1..NumCallers : TimerFires(k)
    \/ TimeoutResolves
    \/ BatchResumes
    \/ ThenReaction
    \/ CatchReaction

JobsSettle == \E k \in 1..MaxJobs, o \in Outcomes : JobSettles(k, o)

BatchNext == BatchCall \/ EventLoopStep \/ JobsSettle

FairBatchSpec ==
    /\ BatchInit
    /\ [][BatchNext]_vars
    /\ WF_vars(BatchCall)
    /\ WF_vars(EventLoopStep)
    /\ WF_vars(JobsSettle)

----------------------------------------------------------------------------
(* The claims.                                                             *)

InFlightCalls == {c \in Callers : calls[c].pc \in {"running", "settled"}}

InFlightJobs ==
    {k \in DOMAIN jobState : jobState[k].pc \in {"pending", "settled", "chained"}}

Settled(call) == call.pc \in {"fulfilled", "rejected"}

(* The positions of runs that hold a record of job k.                      *)
RecordsOf(k) == {p \in 1..Len(batch.origin) : batch.origin[p] = k}

(* The record the outcome of job k calls for.                              *)
ExpectedRecord(k) ==
    IF jobState[k].outcome.status = "fulfilled"
    THEN [status |-> "fulfilled", value |-> jobState[k].outcome.payload]
    ELSE [status |-> "rejected",
          reason |-> [error |-> jobState[k].outcome.payload, job |-> batch.jobs[k]]]

(* C1: ParallelLimiter.schedule: for every capacity >= 1 and any number of *)
(* outstanding calls, the operations admitted and not yet completed are at *)
(* most maxParallel, and runningCount never exceeds maxParallel.           *)
C1_LimiterWithinCapacity ==
    /\ Cardinality(InFlightCalls) <= limiter.maxParallel
    /\ limiter.runningCount <= limiter.maxParallel

(* The limiter is full of running operations while another caller polls.   *)
C1_Witness ==
    /\ Cardinality({c \in Callers : calls[c].pc = "running"}) = limiter.maxParallel
    /\ limiter.runningCount = limiter.maxParallel
    /\ \E c \in Callers : calls[c].pc = "waiting"

(* C2: allSettledParallelLimited: for every capacity >= 1 and job list,    *)
(* the jobs started and not yet settled, and runningCount, are at most     *)
(* maxParallel in every state of a batch run.                              *)
C2_BatchWithinCapacity ==
    /\ Cardinality(InFlightJobs) <= batch.maxParallel
    /\ batch.runningCount <= batch.maxParallel

(* The batch waits for admission with maxParallel jobs pending.            *)
C2_Witness ==
    /\ batch.pc = "admitWait"
    /\ Cardinality({k \in DOMAIN jobState : jobState[k].pc = "pending"}) = batch.maxParallel
    /\ batch.runningCount = batch.maxParallel

(* C3: allSettledParallelLimited: whenever the call returns, runs holds    *)
(* exactly one record for every input job: its length is the job count, no *)
(* job is still in flight and no job has zero or two records.              *)
C3_OneRecordPerJob ==
    batch.pc = "returned" =>
        /\ Len(batch.runs) = Len(batch.jobs)
        /\ InFlightJobs = {}
        /\ \A k \in 1..Len(batch.jobs) :
               /\ Cardinality(RecordsOf(k)) = 1
               /\ jobState[k].pc = "done"

(* A batch of several jobs has returned with a mix of outcomes.            *)
C3_Witness ==
    /\ batch.pc = "returned"
    /\ Len(batch.jobs) > batch.maxParallel
    /\ \E p, q \in 1..Len(batch.runs) :
           /\ batch.runs[p].status = "fulfilled"
           /\ batch.runs[q].status = "rejected"

(* C4: allSettledParallelLimited: a job on which jobToPromise throws       *)
(* synchronously is captured as a rejected record whose reason.error is    *)
(* the thrown error; the batch call does not reject and later jobs are     *)
(* still dispatched.                                                       *)
C4_SyncThrowCaptured ==
    /\ batch.pc # "rejected"
    /\ batch.pc = "returned" =>
           \A k \in 1..Len(batch.jobs) :
               /\ jobState[k].invoked = 1
               /\ batch.jobs[k].throws =>
                      \E p \in RecordsOf(k) :
                          batch.runs[p] =
                              [status |-> "rejected",
                               reason |-> [error |-> batch.jobs[k].error,
                                           job |-> batch.jobs[k]]]

(* C5: allSettledParallelLimited: every record matches the outcome of its  *)
(* job: {status: 'fulfilled', value: v} and no reason for a promise        *)
(* fulfilled with v, {status: 'rejected', reason: {error: e, job}} and no  *)
(* value for a promise rejected with e, job being that input job.          *)
C5_RecordsMatchOutcomes ==
    /\ Len(batch.origin) = Len(batch.runs)
    /\ \A p \in 1..Len(batch.runs) : batch.runs[p] = ExpectedRecord(batch.origin[p])
    /\ \A k \in DOMAIN jobState : jobState[k].pc = "done" => RecordsOf(k) # {}

(* Records of both kinds are in runs, the rejected one not of the first    *)
(* job.                                                                    *)
C5_Witness ==
    \E p, q \in 1..Len(batch.runs) :
        /\ batch.runs[p].status = "fulfilled"
        /\ batch.runs[q].status = "rejected"
        /\ batch.runs[q].reason.job.id > 1

(* C6: allSettledParallelLimited: a job whose promise rejects never aborts *)
(* the batch: the call's promise is rejected only by a throw of            *)
(* jobToPromise on the job being dispatched, never by a rejected promise,  *)
(* and a call that returns has dispatched every job and holds the record   *)
(* of every rejected one.                                                  *)
C6_RejectionNeverAborts ==
    /\ batch.pc = "rejected" =>
           /\ batch.i + 1 \in DOMAIN jobState
           /\ jobState[batch.i + 1].pc = "threw"
           /\ batch.error = batch.jobs[batch.i + 1].error
    /\ (\A k \in DOMAIN jobState : jobState[k].pc # "threw") => batch.pc # "rejected"
    /\ batch.pc = "returned" =>
           \A k \in 1..Len(batch.jobs) :
               /\ jobState[k].invoked = 1
               /\ jobState[k].outcome.status = "rejected" =>
                      \E p \in RecordsOf(k) : batch.runs[p].status = "rejected"

(* With capacity 1 a job that is not the last was rejected, and the call   *)
(* has returned with every record.                                         *)
C6_Witness ==
    /\ batch.pc = "returned"
    /\ batch.maxParallel = 1
    /\ Len(batch.runs) = Len(batch.jobs)
    /\ \E k \in 1..(Len(batch.jobs) - 1) : jobState[k].outcome.status = "rejected"

(* C7: ParallelLimiter.schedule: every admitted call decrements            *)
(* runningCount exactly once when its operation completes, on success and  *)
(* on every kind of failure, a throw of the operation when it is invoked   *)
(* included: runningCount is the number of calls between admission and     *)
(* settlement, and 0 when there is none.                                   *)
C7_ReleasedOnEveryCompletion ==
    limiter.runningCount = Cardinality(InFlightCalls)

(* C8: ParallelLimiter.schedule: the promise returned by schedule settles  *)
(* with exactly the outcome of the operation: the operation's value, or    *)
(* the very same error; the limiter produces no error of its own.          *)
C8_ScheduleMirrorsOperation ==
    \A c \in Callers :
        IF Settled(calls[c])
        THEN calls[c].result = calls[c].outcome
        ELSE calls[c].result = NoOutcome

(* C9: schedule and allSettledParallelLimited: each submitted operation is *)
(* invoked exactly once, only after its admission, and never again after   *)
(* it fails; a call that polls has not invoked its operation.              *)
C9_InvokedOnceAfterAdmission ==
    /\ \A c \in Callers :
           calls[c].invoked = IF calls[c].pc \in {"idle", "waiting"} THEN 0 ELSE 1
    /\ \A k \in DOMAIN jobState :
           /\ jobState[k].invoked = IF jobState[k].pc = "unstarted" THEN 0 ELSE 1
           /\ jobState[k].pc # "unstarted" => k <= batch.i + 1
    /\ Cardinality({c \in Callers : calls[c].invoked = 1}) >= limiter.runningCount
    /\ Cardinality({k \in DOMAIN jobState : jobState[k].invoked = 1}) >= batch.runningCount

(* An operation has failed after its call polled, and another call polls.  *)
C9_Witness ==
    /\ \E c \in Callers :
           /\ calls[c].pc = "rejected"
           /\ ~calls[c].provider.throws
           /\ <<"Max parallel count reached", limiter.maxParallel>> \in logged
    /\ \E c \in Callers : calls[c].pc = "waiting"

(* C10: noLimiter.schedule: the operation is invoked at once and exactly   *)
(* once, no timer is set, no counter is touched and nothing is logged, and *)
(* the returned promise settles with the operation's outcome, however many *)
(* calls are outstanding.                                                  *)
C10_NoLimiterPassesThrough ==
    uses = "noLimiter" =>
        /\ timers = <<>>
        /\ \A m \in 1..Len(microtasks) : microtasks[m].kind = "adopt"
        /\ limiter.runningCount = 0
        /\ batch.runningCount = 0
        /\ logged = {}
        /\ \A c \in Callers :
               /\ nlCalls[c].invoked = IF nlCalls[c].pc = "idle" THEN 0 ELSE 1
               /\ IF Settled(nlCalls[c])
                  THEN nlCalls[c].result = nlCalls[c].outcome
                  ELSE nlCalls[c].result = NoOutcome

(* Of the noLimiter calls one has failed, one has returned a value and     *)
(* another is outstanding.                                                 *)
C10_Witness ==
    /\ \E c \in Callers :
           /\ nlCalls[c].pc = "rejected"
           /\ ~nlCalls[c].provider.throws
    /\ \E c \in Callers : nlCalls[c].result = Fulfilled("v2")
    /\ \E c \in Callers : nlCalls[c].pc = "running"

Min(a, b) == IF a <= b THEN a ELSE b

StartedJobs == {k \in DOMAIN jobState : jobState[k].pc # "unstarted"}

AdmissionWaitLogged == \E m \in logged : m[1] = "Running"

(* C11: allSettledParallelLimited: when maxParallel is at least the number *)
(* of jobs the admission loop never suspends and logs no admission wait:   *)
(* the call dispatches every job in its first synchronous segment, before  *)
(* any timer, whatever the jobs' completion timing.                        *)
C11_NoAdmissionWaitWithinCapacity ==
    (uses = "allSettledParallelLimited" /\ batch.maxParallel >= Len(batch.jobs)) =>
        /\ batch.pc # "admitWait"
        /\ ~AdmissionWaitLogged
        /\ \A t \in 1..Len(timers) : timers[t].delay = DrainFactor * batch.retryMs
        /\ batch.pc \in {"drainWait", "returned"} => StartedJobs = DOMAIN jobState

(* With logRetries on, as many jobs as the capacity were all dispatched    *)
(* and some have settled while the call drains.                            *)
C11_Witness ==
    /\ batch.maxParallel = Len(batch.jobs)
    /\ Len(batch.jobs) >= 2
    /\ batch.logRetries
    /\ batch.pc = "drainWait"
    /\ Len(batch.runs) >= 1
    /\ <<"Waiting for runs to complete", batch.maxParallel>> \in logged

(* C12: allSettledParallelLimited: with capacity >= 1, when every started  *)
(* job settles in the end, the call returns in the end (the admission and  *)
(* the drain loop both terminate), and only with runningCount at 0.        *)
C12_BatchEventuallyReturns ==
    /\ <>(batch.pc = "returned")
    /\ [](batch.pc = "returned" => batch.runningCount = 0)

(* What the code does: the call returns in the end unless a throw of       *)
(* jobToPromise has ended it.                                              *)
BatchReturnsUnlessThrown ==
    /\ <>(batch.pc = "returned" \/ batch.pc = "rejected")
    /\ [](batch.pc = "returned" => batch.runningCount = 0)
    /\ [](batch.pc = "rejected" => \E k \in DOMAIN jobState : jobState[k].pc = "threw")

(* The polls a suspended caller has pending: its timer, or the microtask   *)
(* that follows it.                                                        *)
PendingPolls(owner, id) ==
    Cardinality({t \in 1..Len(timers) : timers[t].owner = owner /\ timers[t].id = id})
    + Cardinality({m \in 1..Len(microtasks) :
                      microtasks[m].owner = owner /\ microtasks[m].id = id})

(* C13: with a capacity of zero or less, schedule never invokes its         *)
(* operation and never settles, and keeps a next poll pending for ever; the *)
(* running count stays 0; a batch of one job or more starts no job and      *)
(* never returns, and keeps polling too.                                    *)
C13_NonPositiveCapacityAdmitsNothing ==
    /\ limiter.runningCount = 0
    /\ \A c \in Callers :
           /\ calls[c].invoked = 0
           /\ calls[c].result = NoOutcome
           /\ calls[c].pc \in {"idle", "waiting"}
           /\ calls[c].pc = "waiting" => PendingPolls("schedule", c) = 1
    /\ (uses = "allSettledParallelLimited" /\ Len(batch.jobs) >= 1) =>
           /\ batch.pc \in {"idle", "admitWait"}
           /\ batch.i = 0
           /\ batch.runningCount = 0
           /\ batch.runs = <<>>
           /\ StartedJobs = {}
           /\ batch.pc = "admitWait" => PendingPolls("batch", 0) = 1

C13_Witness ==
    /\ limiter.maxParallel = 0
    /\ \A c \in Callers : calls[c].pc = "waiting"
    /\ <<"Max parallel count reached", 0>> \in logged
    /\ microtasks # <<>>
    /\ Head(microtasks).kind = "resume"

CalledCalls == {c \in Callers : calls[c].pc # "idle"}
RunningCalls == {c \in Callers : calls[c].pc = "running"}
WaitingCalls == {c \in Callers : calls[c].pc = "waiting"}

(* The calls that have passed the admission check.                         *)
AdmittedCalls == {c \in CalledCalls : calls[c].invoked = 1}

(* The provider of the call threw when invoked: line 77 left schedule.     *)
SyncThrew(c) == calls[c].pc = "rejected" /\ calls[c].provider.throws

(* No promise returned by an operation has completed yet: every call made  *)
(* so far is admitted with its operation pending, or is waiting, or its    *)
(* provider threw at the invocation.                                       *)
NoneCompleted ==
    \A c \in CalledCalls : calls[c].pc \in {"running", "waiting"} \/ SyncThrew(c)

(* C14: a call that finds the running count below the capacity is admitted *)
(* at once; of N calls made before any operation completes, capacity (or   *)
(* all N, if fewer) are admitted and run, the running count peaks at the   *)
(* capacity, and the other N - capacity calls wait.                        *)
C14_BurstAdmitsCapacity ==
    (uses = "ParallelLimiter" /\ NoneCompleted) =>
        /\ Cardinality(AdmittedCalls) = Min(Cardinality(CalledCalls), limiter.maxParallel)
        /\ limiter.runningCount = Cardinality(AdmittedCalls)
        /\ Cardinality(WaitingCalls) =
               Cardinality(CalledCalls) - Cardinality(AdmittedCalls)
        /\ RunningCalls \subseteq AdmittedCalls
        /\ AdmittedCalls \cap WaitingCalls = {}

C14_Witness ==
    /\ uses = "ParallelLimiter"
    /\ NoneCompleted
    /\ limiter.maxParallel = 2
    /\ \A c \in Callers : ~SyncThrew(c)
    /\ CalledCalls = Callers
    /\ Cardinality(RunningCalls) = 2
    /\ Cardinality(WaitingCalls) = 1
    /\ limiter.runningCount = limiter.maxParallel

(* Caller c is suspended in the while loop and its poll is the next        *)
(* microtask to run.                                                       *)
PollsNext(c) ==
    /\ calls[c].pc = "waiting"
    /\ microtasks # <<>>
    /\ Head(microtasks) = Microtask("resume", "schedule", c)

(* Caller a called schedule before caller b did, and has waited since.     *)
WaitsSinceBefore(a, b) == a < b /\ calls[a].pc = "waiting"

(* C15: waiters are not admitted in the order of their calls: a waiting    *)
(* caller whose poll finds a free slot is admitted by that poll, also      *)
(* while a caller that called earlier is still waiting.                    *)
C15_NoFifoAmongWaiters ==
    [][\A b \in Callers :
          (PollsNext(b) /\ microtasks' = Tail(microtasks) /\ ~LimiterFull(limiter)) =>
              /\ calls'[b].pc # "waiting"
              /\ calls'[b].invoked = 1
              /\ \A a \in Callers : WaitsSinceBefore(a, b) => calls'[a].pc = "waiting"]_vars

(* The poll of the later caller b is about to take the free slot while the *)
(* earlier caller a waits for its timer.                                   *)
C15_Witness ==
    \E a \in Callers, b \in Callers :
        /\ WaitsSinceBefore(a, b)
        /\ PollsNext(b)
        /\ ~LimiterFull(limiter)
        /\ \E t \in 1..Len(timers) : timers[t] = Timer("schedule", a, limiter.retryMs)

Recorded(k) == \E p \in 1..Len(batch.origin) : batch.origin[p] = k
Position(k) == CHOOSE p \in 1..Len(batch.origin) : batch.origin[p] = k
RecordPrecedes(j, i) == Recorded(j) /\ Recorded(i) => Position(j) < Position(i)

(* Job j has settled while job i, started too, has not.                    *)
SettledBefore(j, i) ==
    /\ j \in DOMAIN jobState /\ i \in DOMAIN jobState
    /\ jobState[j].outcome # NoOutcome
    /\ jobState[i].pc = "pending"

SameStatus(j, i) ==
    /\ j \in DOMAIN jobState /\ i \in DOMAIN jobState
    /\ jobState[j].outcome # NoOutcome /\ jobState[i].outcome # NoOutcome
    /\ jobState[j].outcome.status = jobState[i].outcome.status

(* C16: the records are appended in the order the jobs settle: for i < j,  *)
(* if job j settles before job i, the record of j precedes that of i.      *)
C16_RecordsInSettleOrder ==
    \A i \in 1..MaxJobs, j \in 1..MaxJobs :
        i < j => [](SettledBefore(j, i) => [](RecordPrecedes(j, i)))

(* What holds: the settle order is kept between two jobs that settle the   *)
(* same way; a rejection is recorded one microtask later than a result.    *)
RecordsInSettleOrderPerStatus ==
    \A i \in 1..MaxJobs, j \in 1..MaxJobs :
        i < j => [](SettledBefore(j, i) => [](SameStatus(j, i) => RecordPrecedes(j, i)))

(* C17: jobs are started in input order, whatever the capacity: the jobs   *)
(* started so far are the first ones of the list, the loop index counts    *)
(* them, and none is started twice.                                        *)
C17_StartedInInputOrder ==
    uses = "allSettledParallelLimited" =>
        /\ StartedJobs = 1..Cardinality(StartedJobs)
        /\ \A k \in DOMAIN jobState : jobState[k].invoked <= 1
        /\ batch.pc # "rejected" => batch.i = Cardinality(StartedJobs)
        /\ \A m \in logged : m[1] = "Started" => m[2] + 1 \in StartedJobs

C17_Witness ==
    /\ uses = "allSettledParallelLimited"
    /\ batch.maxParallel = 1
    /\ Len(batch.jobs) = MaxJobs
    /\ StartedJobs = {1, 2}
    /\ batch.pc = "admitWait"
    /\ Recorded(1)

FirstBurst == 1..Min(batch.maxParallel, Len(batch.jobs))
NoJobSettled == \A k \in StartedJobs : jobState[k].pc = "pending"

(* C18: the batch dispatches without awaiting completion: once called, the *)
(* first min(capacity, n) jobs are started, before any of them settles and *)
(* before any timer wait, and the running count reaches min(capacity, n).  *)
C18_FirstBurstStartedAtOnce ==
    (uses = "allSettledParallelLimited" /\ batch.pc # "idle") =>
        /\ FirstBurst \subseteq StartedJobs
        /\ NoJobSettled =>
               /\ StartedJobs = FirstBurst
               /\ batch.runningCount = Cardinality(FirstBurst)
               /\ Len(batch.jobs) >= 1 => PendingPolls("batch", 0) = 1

(* What holds: the same, unless jobToPromise threw during the burst.       *)
FirstBurstUnlessThrown ==
    (uses = "allSettledParallelLimited" /\ batch.pc \notin {"idle", "rejected"}) =>
        /\ FirstBurst \subseteq StartedJobs
        /\ NoJobSettled =>
               /\ StartedJobs = FirstBurst
               /\ batch.runningCount = Cardinality(FirstBurst)
               /\ Len(batch.jobs) >= 1 => PendingPolls("batch", 0) = 1

SlotHolders ==
    {c \in Callers : calls[c].pc \in {"running", "settled"} \/ SyncThrew(c)}

(* What schedule delivers when every logger call returns.                  *)
SilentDelivery(c) ==
    IF calls[c].provider.throws THEN Rejected(calls[c].provider.error)
                                ELSE Delivered(calls[c].outcome)

(* C20: the logger never affects control flow: whatever it does when       *)
(* called, and with logRetries on or off, the admissions, the counter, the *)
(* invocations and the delivered outcomes are those of a silent logger.    *)
C20_SinkNeverAffectsControl ==
    uses = "ParallelLimiter" =>
        /\ limiter.runningCount = Cardinality(SlotHolders)
        /\ \A c \in Callers :
               /\ calls[c].pc \in {"running", "settled", "fulfilled", "rejected"} =>
                      calls[c].invoked = 1
               /\ calls[c].pc \in {"fulfilled", "rejected"} =>
                      calls[c].result = SilentDelivery(c)
               /\ calls[c].pc = "waiting" => PendingPolls("schedule", c) = 1

PeerSlotHolders == {c \in Callers : peer.calls[c].pc \in {"running", "settled"}}

(* Every counter counts the operations of its own instance, within the     *)
(* capacity of that instance.                                              *)
OwnCount ==
    /\ limiter.runningCount = Cardinality(SlotHolders)
    /\ limiter.runningCount <= limiter.maxParallel
    /\ peer.limiter.runningCount = Cardinality(PeerSlotHolders)
    /\ peer.limiter.runningCount <= peer.limiter.maxParallel
    /\ batch.runningCount = Cardinality(InFlightJobs)
    /\ batch.runningCount <= batch.maxParallel

(* A step of a call on one instance leaves the other instance as it is,    *)
(* and a counter changes only in a step of a call on its own instance.     *)
OwnStep ==
    /\ calls' # calls => peer' = peer /\ batch' = batch /\ jobState' = jobState
    /\ peer.calls' # peer.calls => limiter' = limiter /\ calls' = calls
    /\ (batch' # batch \/ jobState' # jobState) => limiter' = limiter /\ calls' = calls
    /\ limiter.runningCount' # limiter.runningCount => calls' # calls
    /\ peer.limiter.runningCount' # peer.limiter.runningCount => peer.calls' # peer.calls
    /\ batch.runningCount' # batch.runningCount => jobState' # jobState

AdmittedAndSettled(c) == calls[c].invoked = 1 /\ Settled(calls[c])

(* C22: with capacity >= 1 and operations that complete once invoked, every *)
(* schedule call made is eventually admitted and eventually settles, under  *)
(* fair scheduling of timers: no caller waits for ever.                     *)
C22_EveryCallEventuallySettles ==
    \A c \in Callers : [](calls[c].pc # "idle" => <>AdmittedAndSettled(c))

(* What holds: every call settles unless some provider threw when invoked. *)
EveryCallSettlesUnlessThrown ==
    \A c \in Callers :
        [](calls[c].pc # "idle" =>
              <>(AdmittedAndSettled(c) \/ \E d \in Callers : SyncThrew(d)))

(* Every slot is held by an operation that awaits a nested schedule call,  *)
(* and the innermost of these calls waits for a slot.                      *)
Innermost == limiter.maxParallel + 1

Deadlocked ==
    /\ Innermost \in Callers
    /\ \A c \in 1..limiter.maxParallel : calls[c].pc = "running"
    /\ calls[Innermost].pc = "waiting"

(* C23: schedule is not re-entrant safe: once the operations that hold all *)
(* the slots each await a schedule call on the same limiter, the inner     *)
(* call polls for ever, its operation is never invoked, and neither the    *)
(* inner nor the outer calls ever settle.                                  *)
C23_NestedScheduleDeadlocks ==
    /\ [](Deadlocked =>
             /\ limiter.runningCount = limiter.maxParallel
             /\ calls[Innermost].invoked = 0
             /\ PendingPolls("schedule", Innermost) = 1)
    /\ [][Deadlocked => Deadlocked']_vars

(* With capacity 2 two nested operations hold both slots and the call of   *)
(* the second one has just been refused a slot once more.                  *)
C23_Witness ==
    /\ Deadlocked
    /\ limiter.maxParallel = 2
    /\ limiter.logRetries
    /\ <<"Max parallel count reached", 2>> \in logged
    /\ microtasks # <<>>
    /\ Head(microtasks) = Microtask("resume", "schedule", Innermost)

====
